---- MODULE Spec2Model ----
(***************************************************************************)
(* Model of app.py: the POST /api/stt handler stt, the normalizer          *)
(* to_wav_mono16k and the streaming recognizer recognize_wav_bytes.        *)
(*                                                                         *)
(* Conventions.                                                            *)
(*  - Text is a sequence of one-character strings.                         *)
(*  - Python floats are exact fractions [num, den] with den > 0.           *)
(*  - perf_counter and cpu_times are read in clock ticks, TicksPerMs ticks *)
(*    to the millisecond, so int(x * 1000) is a truncating division.       *)
(*  - exc is the exception raised while the request is handled (its class  *)
(*    "" when none): in flight until pc = "done", the one handled after.   *)
(*  - trace and engineLog are history variables: the calls made so far.    *)
(***************************************************************************)
EXTENDS Integers, Sequences, FiniteSets, TLC

\* ------------------------------------------------------------ configuration
SAMPLE_RATE == 16000
MAX_FILE_MB == 25
FRAMES_PER_CHUNK == 4000

MB == 1024 * 1024

\* The limit taken in bits instead of bytes.
MAX_CONTENT_LENGTH_Bits == MAX_FILE_MB * 1024 * 1024 * 8
\* app.config["MAX_CONTENT_LENGTH"]
MAX_CONTENT_LENGTH == MAX_FILE_MB * 1024 * 1024

\* ------------------------------------------------------------------ bounds
\* Largest number of chunks a modelled waveform holds.
MaxChunks == 3
\* Clock resolution and the largest advance of the clock between two readings.
TicksPerMs == 2
MaxDelta == 3
\* Bytes of a multipart/form-data body that are not the file itself.
FormOverhead == 200
\* Largest logical core count the host reports.
MaxCpus == 2

\* ------------------------------------------------------------- fractions
Frac(n, d) == [num |-> n, den |-> d]
FracLeq(a, b) == a.num * b.den <= b.num * a.den
FracEq(a, b) == a.num * b.den = b.num * a.den
FracMin(a, b) == IF FracLeq(a, b) THEN a ELSE b
FracMax(a, b) == IF FracLeq(a, b) THEN b ELSE a
FracMulInt(a, k) == Frac(a.num * k, a.den)
\* a / k for k > 0
FracDivInt(a, k) == Frac(a.num, a.den * k)

\* int(x): truncation toward zero of n / d, d > 0
IntTrunc(n, d) == IF n >= 0 THEN n \div d ELSE -((-n) \div d)

\* round(x, k) with scale = 10^k, as a fraction over scale: the nearest
\* multiple of 1/scale, a tie going to the even one.
Round(a, scale) ==
  LET n == a.num * scale
      q == n \div a.den
      r2 == 2 * (n % a.den)
      up == r2 > a.den \/ (r2 = a.den /\ q % 2 = 1)
  IN Frac(IF up THEN q + 1 ELSE q, scale)

\* ------------------------------------------------------------------ text
Whitespace == {" ", "\t"}

RECURSIVE LStrip(_)
LStrip(s) == IF s # <<>> /\ Head(s) \in Whitespace THEN LStrip(Tail(s)) ELSE s

RECURSIVE RStrip(_)
RStrip(s) ==
  IF s # <<>> /\ s[Len(s)] \in Whitespace
  THEN RStrip(SubSeq(s, 1, Len(s) - 1))
  ELSE s

\* str.strip()
Strip(s) == RStrip(LStrip(s))

\* The first word of s, s starting with a non-whitespace character.
RECURSIVE FirstWord(_)
FirstWord(s) ==
  IF s = <<>> \/ Head(s) \in Whitespace
  THEN <<>>
  ELSE <<Head(s)>> \o FirstWord(Tail(s))

\* str.split() with no separator: the words between runs of whitespace.
RECURSIVE Split(_)
Split(s) ==
  LET t == LStrip(s)
      w == FirstWord(t)
  IN IF t = <<>> THEN <<>>
     ELSE <<w>> \o Split(SubSeq(t, Len(w) + 1, Len(t)))

\* sep.join(parts)
RECURSIVE Join(_, _)
Join(sep, parts) ==
  IF parts = <<>> THEN <<>>
  ELSE IF Len(parts) = 1 THEN parts[1]
  ELSE parts[1] \o sep \o Join(sep, Tail(parts))

\* [t.strip() for t in result_text if t.strip()]
RECURSIVE StripNonEmpty(_)
StripNonEmpty(ts) ==
  IF ts = <<>> THEN <<>>
  ELSE IF Strip(Head(ts)) # <<>>
       THEN <<Strip(Head(ts))>> \o StripNonEmpty(Tail(ts))
       ELSE StripNonEmpty(Tail(ts))

AssembleText_NoCollapse(result_text) == Join(<<" ">>, StripNonEmpty(result_text))
\* text = " ".join([...]); text = " ".join(text.split())
AssembleText(result_text) ==
  Join(<<" ">>, Split(Join(<<" ">>, StripNonEmpty(result_text))))

\* ----------------------------------------------------------------- state
VARIABLES
  pc,          \* position of the request in stt and the functions it calls
  request,     \* the upload: has_audio, file_bytes, content_length
  num_cpus,    \* stt's num_cpus
  fs,          \* the temporary files that exist: a subset of {"in", "out"}
  exc,         \* the exception raised in the request (class "" when none)
  wav,         \* header of wav_bytes, the bytes to_wav_mono16k returns
  soundpos,    \* frames of wf already read
  result_text, \* recognize_wav_bytes' result_text
  engineLog,   \* history: the calls made on the recognizer rec, in order
  recog,       \* the dict recognize_wav_bytes returns
  now,         \* the clock, in ticks
  t,           \* perf_counter readings wall0, dec_t0, dec_t1, rec_t0, rec_t1, wall1
  cpu,         \* user + system CPU time at cpu0 and cpu1, in ticks
  rss,         \* resident set size at rss0 and rss1, in bytes
  response,    \* the HTTP response: status (0 while there is none) and body
  trace        \* history: calls, returns and checkpoints of the request

vars == <<pc, request, num_cpus, fs, exc, wav, soundpos, result_text, engineLog,
          recog, now, t, cpu, rss, response, trace>>

\* ----------------------------------------------------------- environment
\* Sizes of the uploaded file: small, the largest whose request body fits the
\* limit, just over the limit, and the 30 MB of the end-to-end scenario.
FileSizes ==
  {1, MAX_FILE_MB * MB - FormOverhead, MAX_FILE_MB * MB + 1, 30 * MB}

\* What psutil.cpu_count(logical=True) returns; 0 stands for None.
CpuCounts == 0..MaxCpus

ClockSteps == {0, 1, MaxDelta}

\* CPU ticks a request may consume.
CpuSteps == {0, 1, 2 * MaxDelta}

\* Resident set sizes the process may show: at the first checkpoint, at the last.
RssAtStart == {65 * MB}
RssReadings == {64 * MB, 66 * MB}

\* user + system CPU time of the process at the first checkpoint, in ticks.
CpuAtStart == {MaxDelta}

FrameCounts ==
  {k * FRAMES_PER_CHUNK : k \in 0..MaxChunks}
    \cup {(k - 1) * FRAMES_PER_CHUNK + 1 : k \in 1..MaxChunks}

Canonical(w) ==
  w.parsable /\ w.nchannels = 1 /\ w.sampwidth = 2 /\ w.framerate = SAMPLE_RATE

\* Headers of what the decoder writes: the canonical ones of every length, and
\* one waveform for each way of not being canonical.
WavHeaders ==
  [parsable : {TRUE}, nchannels : {1}, sampwidth : {2}, framerate : {SAMPLE_RATE},
   nframes : FrameCounts]
    \cup [parsable : {TRUE}, nchannels : {1, 2}, sampwidth : {1, 2},
          framerate : {8000, SAMPLE_RATE}, nframes : {FRAMES_PER_CHUNK}]
    \cup [parsable : {FALSE}, nchannels : {0}, sampwidth : {0}, framerate : {0},
          nframes : {0}]

NoWav == [parsable |-> FALSE, nchannels |-> 0, sampwidth |-> 0, framerate |-> 0,
          nframes |-> 0]

\* ------------------------------------------------------------- responses
Msg(text, value) == [text |-> text, value |-> value]
NoExc == [cls |-> "", msg |-> Msg("", 0)]
Exc(cls, msg) == [cls |-> cls, msg |-> msg]

NoResponse == [status |-> 0, body |-> [none |-> TRUE]]

\* jsonify({"error": ...}), status
ErrorResponse(status, msg) == [status |-> status, body |-> [error |-> msg]]

\* except wave.Error / except Exception of the whole handler (lines 202-205).
HandleException(e) ==
  IF e.cls = "wave.Error"
  THEN ErrorResponse(400, Msg("WAV parse failed", 0))
  ELSE ErrorResponse(500, e.msg)

\* The except clauses around the call of to_wav_mono16k (lines 153-156); what
\* they let through reaches those of the whole handler.
HandleDecodeException(e) ==
  IF e.cls = "CalledProcessError"
  THEN ErrorResponse(400, Msg("audio decoding failed, check that ffmpeg can handle the format", 0))
  ELSE IF e.cls = "RuntimeError" THEN ErrorResponse(500, e.msg)
  ELSE HandleException(e)

NoTimes == [wall0 |-> 0, dec_t0 |-> 0, dec_t1 |-> 0, rec_t0 |-> 0, rec_t1 |-> 0,
            wall1 |-> 0]
NoRecog == [text |-> <<>>, seconds |-> Frac(0, 1)]

Init ==
  /\ pc = "idle"
  /\ request = [has_audio |-> FALSE, file_bytes |-> 0, content_length |-> 0]
  /\ num_cpus = 1
  /\ fs = {}
  /\ exc = NoExc
  /\ wav = NoWav
  /\ soundpos = 0
  /\ result_text = <<>>
  /\ engineLog = <<>>
  /\ recog = NoRecog
  /\ now = 0
  /\ t = NoTimes
  /\ cpu = [cpu0 |-> 0, cpu1 |-> 0]
  /\ rss = [rss0 |-> 0, rss1 |-> 0]
  /\ response = NoResponse
  /\ trace = <<>>

\* --------------------------------------------------------- the request
\* A POST /api/stt arrives: a multipart body with or without the field "audio".
Receive ==
  /\ pc = "idle"
  /\ \E has \in BOOLEAN, size \in FileSizes :
       request' = [has_audio |-> has,
                   file_bytes |-> IF has THEN size ELSE 0,
                   content_length |-> IF has THEN size + FormOverhead ELSE FormOverhead]
  /\ pc' = "dispatch"
  /\ UNCHANGED <<num_cpus, fs, exc, wav, soundpos, result_text, engineLog, recog,
                 now, t, cpu, rss, response, trace>>

\* Line 29 as its comment on line 28 describes it: the framework refuses a body
\* over MAX_CONTENT_LENGTH before the view function runs, with its own 413 page.
FlaskAbort413 ==
  /\ pc = "dispatch"
  /\ request.content_length > MAX_CONTENT_LENGTH
  /\ response' = [status |-> 413,
                  body |-> [html |-> Msg("413 Request Entity Too Large", 0)]]
  /\ pc' = "done"
  /\ UNCHANGED <<request, num_cpus, fs, exc, wav, soundpos, result_text, engineLog,
                 recog, now, t, cpu, rss, trace>>

\* num_cpus = psutil.cpu_count(logical=True) or 1
NumCpus(count) == IF count = 0 THEN 1 ELSE count

\* Lines 125-126.
SttEnter ==
  /\ pc = "dispatch"
  /\ \E count \in CpuCounts : num_cpus' = NumCpus(count)
  /\ pc' = "stt_validate"
  /\ UNCHANGED <<request, fs, exc, wav, soundpos, result_text, engineLog, recog,
                 now, t, cpu, rss, response, trace>>

\* Lines 129-142. request.files parses the form, and with line 29 the parser
\* raises RequestEntityTooLarge for a body over MAX_CONTENT_LENGTH; the raise is
\* inside the try and line 204 catches it.
SttValidate ==
  /\ pc = "stt_validate"
  /\ trace' = Append(trace, "validate")
  /\ IF request.content_length > MAX_CONTENT_LENGTH
     THEN /\ exc' = Exc("RequestEntityTooLarge", Msg("413 Request Entity Too Large", 0))
          /\ response' = HandleException(exc')
          /\ pc' = "done"
     ELSE IF ~request.has_audio
     THEN /\ exc' = exc
          /\ response' = ErrorResponse(400, Msg("missing file field 'audio'", 0))
          /\ pc' = "done"
     ELSE IF request.file_bytes > MAX_CONTENT_LENGTH
     THEN /\ exc' = exc
          /\ response' = ErrorResponse(400, Msg("file too large, limit (MB)", MAX_FILE_MB))
          /\ pc' = "done"
     ELSE /\ exc' = exc
          /\ response' = response
          /\ pc' = "stt_begin"
  /\ UNCHANGED <<request, num_cpus, fs, wav, soundpos, result_text, engineLog,
                 recog, now, t, cpu, rss>>

\* Lines 145-152: the first checkpoint, the start of the decode interval and
\* the call of to_wav_mono16k.
SttBegin ==
  /\ pc = "stt_begin"
  /\ \E d \in ClockSteps :
       /\ t' = [t EXCEPT !.wall0 = now, !.dec_t0 = now + d]
       /\ now' = now + d
  /\ \E c0 \in CpuAtStart : cpu' = [cpu EXCEPT !.cpu0 = c0]
  /\ \E r0 \in RssAtStart : rss' = [rss EXCEPT !.rss0 = r0]
  /\ trace' = trace \o <<"wall0", "dec_t0", "to_wav_mono16k">>
  /\ pc' = "norm_check"
  /\ UNCHANGED <<request, num_cpus, fs, exc, wav, soundpos, result_text, engineLog,
                 recog, response>>

\* ------------------------------------------------------ to_wav_mono16k
\* Lines 42-43: shutil.which finds ffmpeg or not.
NormCheckFfmpeg ==
  /\ pc = "norm_check"
  /\ \E found \in BOOLEAN :
       IF found
       THEN /\ pc' = "norm_create"
            /\ exc' = exc
            /\ response' = response
       ELSE /\ pc' = "done"
            /\ exc' = Exc("RuntimeError", Msg("ffmpeg not found, install it first", 0))
            /\ response' = HandleDecodeException(exc')
  /\ UNCHANGED <<request, num_cpus, fs, wav, soundpos, result_text, engineLog,
                 recog, now, t, cpu, rss, trace>>

\* Line 45: NamedTemporaryFile(suffix=".bin", delete=False) creates the input
\* file, or fails and creates nothing.
NormCreateTemp ==
  /\ pc = "norm_create"
  /\ \E ok \in BOOLEAN :
       IF ok
       THEN /\ fs' = fs \cup {"in"}
            /\ trace' = Append(trace, "NamedTemporaryFile")
            /\ pc' = "norm_write"
            /\ exc' = exc
            /\ response' = response
       ELSE /\ fs' = fs
            /\ trace' = trace
            /\ pc' = "done"
            /\ exc' = Exc("OSError", Msg("cannot create temporary file", 0))
            /\ response' = HandleDecodeException(exc')
  /\ UNCHANGED <<request, num_cpus, wav, soundpos, result_text, engineLog,
                 recog, now, t, cpu, rss>>

\* Lines 46-47: f_in.write(src_bytes) inside the with block. A failed write
\* leaves the with block, which closes the file and, with delete=False, keeps
\* it; the try of line 50 has not been entered, so no finally runs.
NormWrite ==
  /\ pc = "norm_write"
  /\ \E ok \in BOOLEAN :
       IF ok
       THEN /\ pc' = "norm_ffmpeg"
            /\ exc' = exc
            /\ response' = response
       ELSE /\ pc' = "done"
            /\ exc' = Exc("OSError", Msg("No space left on device", 0))
            /\ response' = HandleDecodeException(exc')
  /\ UNCHANGED <<request, num_cpus, fs, wav, soundpos, result_text, engineLog,
                 recog, now, t, cpu, rss, trace>>

\* Lines 49-57: subprocess.run(cmd, check=True). ffmpeg exits 0 having written
\* out_path, or exits non-zero with or without a partial out_path.
NormRunFfmpeg ==
  /\ pc = "norm_ffmpeg"
  /\ trace' = Append(trace, "ffmpeg")
  /\ \E rc \in {0, 1}, wrote \in BOOLEAN :
       /\ rc = 0 => wrote
       /\ fs' = IF wrote THEN fs \cup {"out"} ELSE fs
       /\ IF rc = 0
          THEN /\ pc' = "norm_read"
               /\ exc' = exc
          ELSE /\ pc' = "norm_finally"
               /\ exc' = Exc("CalledProcessError", Msg("non-zero exit status", rc))
  /\ UNCHANGED <<request, num_cpus, wav, soundpos, result_text, engineLog, recog,
                 now, t, cpu, rss, response>>

\* Lines 58-59: open(out_path, "rb") and f.read().
NormReadOut ==
  /\ pc = "norm_read"
  /\ \/ /\ \E w \in WavHeaders : wav' = w
        /\ exc' = exc
     \/ /\ wav' = wav
        /\ exc' = Exc("OSError", Msg("cannot read the output file", 0))
  /\ pc' = "norm_finally"
  /\ UNCHANGED <<request, num_cpus, fs, soundpos, result_text, engineLog, recog,
                 now, t, cpu, rss, response, trace>>

\* Where stt goes on once to_wav_mono16k has left with e in flight.
AfterNormalizer_NoShortCircuit(e) == "stt_after_decode"
AfterNormalizer(e) == IF e.cls = "" THEN "stt_after_decode" ELSE "done"

\* Lines 60-65: the finally block removes both paths (a failing os.remove is
\* swallowed), then the function returns or the exception goes on to stt.
NormFinally ==
  /\ pc = "norm_finally"
  /\ fs' = fs \ {"in", "out"}
  /\ pc' = AfterNormalizer(exc)
  /\ response' = IF exc.cls = "" THEN response ELSE HandleDecodeException(exc)
  /\ trace' = IF exc.cls = "" THEN Append(trace, "to_wav_mono16k.return") ELSE trace
  /\ UNCHANGED <<request, num_cpus, exc, wav, soundpos, result_text, engineLog,
                 recog, now, t, cpu, rss>>

\* Lines 157-161: the end of the decode interval, the start of the recognize
\* interval and the call of recognize_wav_bytes.
SttAfterDecode ==
  /\ pc = "stt_after_decode"
  /\ \E d1, d2 \in ClockSteps :
       /\ t' = [t EXCEPT !.dec_t1 = now + d1, !.rec_t0 = now + d1 + d2]
       /\ now' = now + d1 + d2
  /\ trace' = trace \o <<"dec_t1", "rec_t0", "recognize_wav_bytes">>
  /\ pc' = "rec_open"
  /\ UNCHANGED <<request, num_cpus, fs, exc, wav, soundpos, result_text, engineLog,
                 recog, cpu, rss, response>>

\* ------------------------------------------------- recognize_wav_bytes
\* Lines 73-80: what wave.open and the three checks raise for the header w.
EnvelopeError_NoRateCheck(w) ==
  IF ~w.parsable THEN Exc("wave.Error", Msg("file does not start with RIFF id", 0))
  ELSE IF w.nchannels # 1 THEN Exc("ValueError", Msg("expected mono wav, channels", 1))
  ELSE IF w.sampwidth # 2 THEN Exc("ValueError", Msg("expected 16-bit PCM, bits", 16))
  ELSE NoExc
EnvelopeError(w) ==
  IF ~w.parsable THEN Exc("wave.Error", Msg("file does not start with RIFF id", 0))
  ELSE IF w.nchannels # 1 THEN Exc("ValueError", Msg("expected mono wav, channels", 1))
  ELSE IF w.sampwidth # 2 THEN Exc("ValueError", Msg("expected 16-bit PCM, bits", 16))
  ELSE IF w.framerate # SAMPLE_RATE
  THEN Exc("ValueError", Msg("expected sample rate", SAMPLE_RATE))
  ELSE NoExc

LogEntry(op, frames, boundary, text) ==
  [op |-> op, frames |-> frames, boundary |-> boundary, text |-> text]

\* Lines 72-85: open the container, check the envelope, create the recognizer.
RecOpen ==
  /\ pc = "rec_open"
  /\ LET e == EnvelopeError(wav) IN
       IF e.cls # ""
       THEN /\ exc' = e
            /\ response' = HandleException(e)
            /\ pc' = "done"
            /\ trace' = Append(trace, "wave.open")
            /\ engineLog' = engineLog
       ELSE /\ exc' = exc
            /\ response' = response
            /\ pc' = "rec_loop"
            /\ trace' = trace \o <<"wave.open", "KaldiRecognizer">>
            /\ engineLog' = <<LogEntry("KaldiRecognizer", 0, FALSE, <<>>)>>
  /\ soundpos' = 0
  /\ result_text' = <<>>
  /\ UNCHANGED <<request, num_cpus, fs, wav, recog, now, t, cpu, rss>>

Min(a, b) == IF a <= b THEN a ELSE b

\* wf.readframes(FRAMES_PER_CHUNK): the number of frames read at position pos.
ReadFrames(w, pos) == Min(FRAMES_PER_CHUNK, w.nframes - pos)

\* A short read taken for the end of the stream.
StreamExhausted_ShortRead(data) == data < FRAMES_PER_CHUNK
\* if not data: break
StreamExhausted(data) == data = 0

\* What the engine may hold as text for its k-th utterance: nothing, only
\* whitespace, or words between runs of whitespace.
Letters == <<"a", "b", "c", "d", "e", "f", "g", "h">>
TextOptions(k) ==
  {<<>>, <<" ">>, <<" ", Letters[k], "\t", " ", Letters[k], Letters[k], " ">>}

\* Lines 86-93: one turn of the loop. AcceptWaveform answers whether the chunk
\* ended an utterance; only then is Result() asked for.
RecReadChunk ==
  /\ pc = "rec_loop"
  /\ LET data == ReadFrames(wav, soundpos) IN
       IF StreamExhausted(data)
       THEN /\ pc' = "rec_final"
            /\ UNCHANGED <<soundpos, engineLog, result_text>>
       ELSE /\ pc' = "rec_loop"
            /\ soundpos' = soundpos + data
            /\ \E accepted \in BOOLEAN,
                  partial \in TextOptions(soundpos \div FRAMES_PER_CHUNK + 1) :
                 IF accepted
                 THEN /\ engineLog' = engineLog \o
                           <<LogEntry("AcceptWaveform", data, TRUE, <<>>),
                             LogEntry("Result", 0, FALSE, partial)>>
                      /\ result_text' = IF partial # <<>>
                                        THEN Append(result_text, partial)
                                        ELSE result_text
                 ELSE /\ engineLog' = Append(engineLog,
                                             LogEntry("AcceptWaveform", data, FALSE, <<>>))
                      /\ result_text' = result_text
  /\ UNCHANGED <<request, num_cpus, fs, exc, wav, recog, now, t, cpu, rss, response,
                 trace>>

\* Lines 95-97: the final result, asked for once the loop has ended.
RecFinal ==
  /\ pc = "rec_final"
  /\ \E final \in TextOptions((soundpos + FRAMES_PER_CHUNK - 1) \div FRAMES_PER_CHUNK + 1) :
       /\ engineLog' = Append(engineLog, LogEntry("FinalResult", 0, FALSE, final))
       /\ result_text' = IF final # <<>> THEN Append(result_text, final) ELSE result_text
  /\ pc' = "rec_assemble"
  /\ UNCHANGED <<request, num_cpus, fs, exc, wav, soundpos, recog, now, t, cpu, rss,
                 response, trace>>

\* The duration taken from the chunks read instead of the header's frames.
AudioSeconds_WholeChunks(nframes, framerate) ==
  Frac(((nframes + FRAMES_PER_CHUNK - 1) \div FRAMES_PER_CHUNK) * FRAMES_PER_CHUNK,
       framerate)
\* seconds = wf.getnframes() / float(wf.getframerate())
AudioSeconds(nframes, framerate) == Frac(nframes, framerate)

\* Lines 100-104: assemble the text, compute the duration, return.
RecAssemble ==
  /\ pc = "rec_assemble"
  /\ recog' = [text |-> AssembleText(result_text),
               seconds |-> AudioSeconds(wav.nframes, wav.framerate)]
  /\ trace' = Append(trace, "recognize_wav_bytes.return")
  /\ pc' = "stt_after_recognize"
  /\ UNCHANGED <<request, num_cpus, fs, exc, wav, soundpos, result_text, engineLog,
                 now, t, cpu, rss, response>>

\* ------------------------------------------------------- stt, continued
\* Lines 162-167: the end of the recognize interval and the last checkpoint.
\* recognize_wav_bytes' frame (wf, rec, result_text) is gone.
SttAfterRecognize ==
  /\ pc = "stt_after_recognize"
  /\ \E d1, d2 \in ClockSteps :
       /\ t' = [t EXCEPT !.rec_t1 = now + d1, !.wall1 = now + d1 + d2]
       /\ now' = now + d1 + d2
  /\ \E dc \in CpuSteps : cpu' = [cpu EXCEPT !.cpu1 = cpu.cpu0 + dc]
  /\ \E r1 \in RssReadings : rss' = [rss EXCEPT !.rss1 = r1]
  /\ soundpos' = 0
  /\ result_text' = <<>>
  /\ engineLog' = <<>>
  /\ trace' = trace \o <<"rec_t1", "wall1">>
  /\ pc' = "stt_metrics"
  /\ UNCHANGED <<request, num_cpus, fs, exc, wav, recog, response>>

\* int((wall1 - wall0) * 1000) and the like
WallMs(tt) == IntTrunc(tt.wall1 - tt.wall0, TicksPerMs)
\* The decode interval closed at the end of recognition.
DecodeMs_UntilRecEnd(tt) == IntTrunc(tt.rec_t1 - tt.dec_t0, TicksPerMs)
DecodeMs(tt) == IntTrunc(tt.dec_t1 - tt.dec_t0, TicksPerMs)
RecogMs(tt) == IntTrunc(tt.rec_t1 - tt.rec_t0, TicksPerMs)
CpuTimeMs(c) == IntTrunc(c.cpu1 - c.cpu0, TicksPerMs)

\* The estimate without the clamp from below.
CpuPercentEst_NoFloor(cpu_time_ms, wall_ms, ncpus) ==
  IF wall_ms > 0
  THEN FracMin(Frac(100, 1),
               FracDivInt(FracMulInt(Frac(cpu_time_ms, wall_ms), 100), ncpus))
  ELSE Frac(0, 1)
\* Lines 175-177.
CpuPercentEst(cpu_time_ms, wall_ms, ncpus) ==
  IF wall_ms > 0
  THEN FracMin(Frac(100, 1),
               FracMax(Frac(0, 1),
                       FracDivInt(FracMulInt(Frac(cpu_time_ms, wall_ms), 100), ncpus)))
  ELSE Frac(0, 1)

\* Lines 169-200: the metrics and the success response.
SttRespond ==
  /\ pc = "stt_metrics"
  /\ response' =
       [status |-> 200,
        body |-> [text |-> recog.text,
                  audio_seconds |-> Round(recog.seconds, 100),
                  latency_ms |-> WallMs(t),
                  decode_ms |-> DecodeMs(t),
                  recognize_ms |-> RecogMs(t),
                  cpu_time_ms |-> CpuTimeMs(cpu),
                  cpu_percent_est |->
                    Round(CpuPercentEst(CpuTimeMs(cpu), WallMs(t), num_cpus), 10),
                  rss_mb |-> Round(Frac(rss.rss1, MB), 10),
                  rss_delta_mb |-> Round(Frac(rss.rss1 - rss.rss0, MB), 10),
                  file_bytes |-> request.file_bytes,
                  limit_mb |-> MAX_FILE_MB]]
  /\ pc' = "done"
  /\ UNCHANGED <<request, num_cpus, fs, exc, wav, soundpos, result_text, engineLog,
                 recog, now, t, cpu, rss, trace>>

\* ------------------------------------------------------- specifications
Next ==
  \/ Receive
  \/ FlaskAbort413
  \/ SttEnter
  \/ SttValidate
  \/ SttBegin
  \/ NormCheckFfmpeg
  \/ NormCreateTemp
  \/ NormWrite
  \/ NormRunFfmpeg
  \/ NormReadOut
  \/ NormFinally
  \/ SttAfterDecode
  \/ RecOpen
  \/ RecReadChunk
  \/ RecFinal
  \/ RecAssemble
  \/ SttAfterRecognize
  \/ SttRespond

Spec == Init /\ [][Next]_vars

\* The metrics of lines 169-200 on synthetic checkpoints: the request stands at
\* line 169 with any wall interval, any CPU times (cpu1 below cpu0 too) and
\* any core count.
SuccessTrace ==
  <<"validate", "wall0", "dec_t0", "to_wav_mono16k", "NamedTemporaryFile", "ffmpeg",
    "to_wav_mono16k.return", "dec_t1", "rec_t0", "recognize_wav_bytes", "wave.open",
    "KaldiRecognizer", "recognize_wav_bytes.return", "rec_t1", "wall1">>

InitCpu ==
  /\ pc = "stt_metrics"
  /\ request = [has_audio |-> TRUE, file_bytes |-> 1, content_length |-> 1 + FormOverhead]
  /\ \E count \in CpuCounts : num_cpus = NumCpus(count)
  /\ fs = {}
  /\ exc = NoExc
  /\ wav = [parsable |-> TRUE, nchannels |-> 1, sampwidth |-> 2,
            framerate |-> SAMPLE_RATE, nframes |-> 0]
  /\ soundpos = 0
  /\ result_text = <<>>
  /\ engineLog = <<>>
  /\ recog = NoRecog
  /\ \E wall \in 0..(2 * MaxDelta) :
       /\ now = wall
       /\ t = [NoTimes EXCEPT !.rec_t1 = wall, !.wall1 = wall]
  /\ \E c0, c1 \in 0..(4 * MaxDelta) : cpu = [cpu0 |-> c0, cpu1 |-> c1]
  /\ \E r0 \in RssAtStart, r1 \in RssReadings : rss = [rss0 |-> r0, rss1 |-> r1]
  /\ response = NoResponse
  /\ trace = SuccessTrace

NextCpu == SttRespond

SpecCpu == InitCpu /\ [][NextCpu]_vars

\* ------------------------------------------------------------ properties
InTrace(e) == \E i \in 1..Len(trace) : trace[i] = e

InNormalizer ==
  pc \in {"norm_check", "norm_create", "norm_write", "norm_ffmpeg", "norm_read",
          "norm_finally"}

\* The upload is larger than the configured limit of MAX_FILE_MB megabytes.
Oversize == request.has_audio /\ request.file_bytes > MAX_FILE_MB * MB

\* C1: once a call of to_wav_mono16k has returned or raised, whatever the way it
\* left, no temporary file it created (the input .bin, the output .wav) exists.
C1_NoTempFileAfterNormalizer ==
  (InTrace("to_wav_mono16k") /\ ~InNormalizer) => fs = {}

\* The response refuses the request for its size.
TooLargeRejection ==
  /\ response.status >= 400
  /\ LET m == IF "error" \in DOMAIN response.body
              THEN response.body.error
              ELSE response.body.html
     IN m.text \in {"file too large, limit (MB)", "413 Request Entity Too Large"}

C3_FailureStatus ==
  (pc = "done" /\ response.status # 200) =>
    /\ DOMAIN response.body = {"error"}
    /\ ~request.has_audio => response.status = 400
    /\ Oversize => /\ response.status = 400
                   /\ response.body.error.value = MAX_FILE_MB
    /\ exc.cls = "CalledProcessError" => response.status = 400
    /\ exc.cls = "wave.Error" => response.status = 400
    /\ exc.cls = "RuntimeError" => response.status = 500
    /\ exc.cls \in {"OSError", "ValueError"} => response.status = 500

\* ---- the recognizer's protocol
Entries(op) == {i \in 1..Len(engineLog) : engineLog[i].op = op}

RECURSIVE FramesSubmitted(_)
FramesSubmitted(log) ==
  IF log = <<>> THEN 0 ELSE Head(log).frames + FramesSubmitted(Tail(log))

\* C4: a run that passed the format check goes STREAMING (pc = "rec_loop"),
\* FINALIZING (pc = "rec_final"), DONE (returned). Chunks reach the engine only
\* while STREAMING; FinalResult is called once, after every frame of the stream
\* was submitted, and is the last call on the engine; the result is returned
\* only after it, for a waveform without frames too.
C4_StreamingProtocol ==
  /\ engineLog # <<>> =>
       /\ pc \in {"rec_loop", "rec_final", "rec_assemble", "stt_after_recognize"}
       /\ engineLog[1].op = "KaldiRecognizer"
       /\ \A i \in Entries("AcceptWaveform") :
            engineLog[i].frames \in 1..FRAMES_PER_CHUNK
  /\ pc = "rec_loop" =>
       /\ Entries("FinalResult") = {}
       /\ FramesSubmitted(engineLog) = soundpos
  /\ pc = "rec_final" =>
       /\ Entries("FinalResult") = {}
       /\ FramesSubmitted(engineLog) = wav.nframes
  /\ pc \in {"rec_assemble", "stt_after_recognize"} =>
       /\ Entries("FinalResult") = {Len(engineLog)}
       /\ FramesSubmitted(engineLog) = wav.nframes
  /\ InTrace("recognize_wav_bytes.return") =>
       pc \in {"stt_after_recognize", "stt_metrics", "done"}

C4_Witness ==
  /\ pc = "stt_after_recognize"
  /\ wav.nframes = FRAMES_PER_CHUNK + 1
  /\ Cardinality(Entries("AcceptWaveform")) = 2
  /\ Cardinality(Entries("Result")) = 1

\* ---- the reference text
\* The texts the engine gave, in call order: at each boundary, then the final.
RECURSIVE EngineTexts(_)
EngineTexts(log) ==
  IF log = <<>> THEN <<>>
  ELSE IF Head(log).op \in {"Result", "FinalResult"}
       THEN <<Head(log).text>> \o EngineTexts(Tail(log))
       ELSE EngineTexts(Tail(log))

HasInk(x) == \E i \in 1..Len(x) : x[i] \notin Whitespace

RECURSIVE Flatten(_)
Flatten(xs) ==
  IF xs = <<>> THEN <<>>
  ELSE IF Len(xs) = 1 THEN Head(xs)
  ELSE Head(xs) \o <<" ">> \o Flatten(Tail(xs))

\* Every run of whitespace becomes one space.
RECURSIVE Collapse(_)
Collapse(x) ==
  IF x = <<>> THEN <<>>
  ELSE IF Head(x) \in Whitespace
       THEN IF Tail(x) # <<>> /\ Head(Tail(x)) \in Whitespace
            THEN Collapse(Tail(x))
            ELSE <<" ">> \o Collapse(Tail(x))
       ELSE <<Head(x)>> \o Collapse(Tail(x))

TrimEnds(x) ==
  LET a == IF x # <<>> /\ Head(x) = " " THEN Tail(x) ELSE x
  IN IF a # <<>> /\ a[Len(a)] = " " THEN SubSeq(a, 1, Len(a) - 1) ELSE a

ReferenceText(texts) == TrimEnds(Collapse(Flatten(SelectSeq(texts, HasInk))))

\* C5: the returned text is the reference text of the engine's outcomes: the
\* committed text of every boundary chunk in order, then the final text, those
\* with something besides whitespace joined by one space, runs of whitespace
\* collapsed and the ends trimmed. The engine is asked for a committed text
\* only right after a chunk that signalled a boundary.
C5_TextIsReference ==
  pc = "stt_after_recognize" =>
    /\ recog.text = ReferenceText(EngineTexts(engineLog))
    /\ \A i \in Entries("Result") :
         /\ engineLog[i - 1].op = "AcceptWaveform"
         /\ engineLog[i - 1].boundary
    /\ \A i \in Entries("AcceptWaveform") :
         engineLog[i].boundary => engineLog[i + 1].op = "Result"

C5_Witness ==
  /\ pc = "stt_after_recognize"
  /\ recog.text = <<"b", " ", "b", "b", " ", "d", " ", "d", "d">>
  /\ \E i \in Entries("AcceptWaveform") : ~engineLog[i].boundary
  /\ \E i \in Entries("Result") : engineLog[i].text = <<" ">>

\* C6: the recognizer is created, and fed, only for a waveform whose header is
\* 1 channel, 2 bytes per sample, SAMPLE_RATE; any other header ends the
\* request in wave.open or in the check of the first attribute that is off,
\* the error naming the value expected, with no call on the engine.
C6_EnvelopeBeforeEngine ==
  /\ (InTrace("KaldiRecognizer") \/ engineLog # <<>>) => Canonical(wav)
  /\ (InTrace("wave.open") /\ ~Canonical(wav)) =>
       /\ pc = "done"
       /\ engineLog = <<>>
       /\ ~InTrace("KaldiRecognizer")
       /\ ~InTrace("recognize_wav_bytes.return")
       /\ IF ~wav.parsable
          THEN exc.cls = "wave.Error"
          ELSE /\ exc.cls = "ValueError"
               /\ \/ wav.nchannels # 1 /\ exc.msg = Msg("expected mono wav, channels", 1)
                  \/ wav.sampwidth # 2 /\ exc.msg = Msg("expected 16-bit PCM, bits", 16)
                  \/ /\ wav.framerate # SAMPLE_RATE
                     /\ exc.msg = Msg("expected sample rate", SAMPLE_RATE)

C6_Witness ==
  /\ pc = "done"
  /\ InTrace("wave.open")
  /\ wav.parsable /\ wav.nchannels = 1 /\ wav.sampwidth = 2
  /\ wav.framerate # SAMPLE_RATE
  /\ exc.cls = "ValueError"

\* ---- the orchestrator
Stages == <<"validate", "to_wav_mono16k", "wave.open", "KaldiRecognizer">>
IsStage(e) == \E i \in 1..Len(Stages) : Stages[i] = e
StageTrace == SelectSeq(trace, IsStage)

ResultFields ==
  {"text", "audio_seconds", "latency_ms", "decode_ms", "recognize_ms", "cpu_time_ms",
   "cpu_percent_est", "rss_mb", "rss_delta_mb", "file_bytes", "limit_mb"}

Failed == exc.cls # "" \/ response.status \notin {0, 200}

\* C7: stt starts the stages in the order validate, normalize, envelope check,
\* recognize; after a failure no further stage starts, and the response of a
\* failed request has no result field: a response carries the text and the
\* metrics exactly when all four stages ran to the end.
C7_ShortCircuit ==
  /\ Len(StageTrace) <= Len(Stages)
  /\ StageTrace = SubSeq(Stages, 1, Len(StageTrace))
  /\ Failed =>
       /\ pc \in {"norm_finally", "done"}
       /\ ~InTrace("recognize_wav_bytes.return")
       /\ pc = "done" => /\ response.status >= 400
                         /\ DOMAIN response.body \cap ResultFields = {}
  /\ response.status = 200 =>
       /\ pc = "done"
       /\ ~Failed
       /\ StageTrace = Stages
       /\ InTrace("to_wav_mono16k.return")
       /\ InTrace("recognize_wav_bytes.return")
       /\ DOMAIN response.body = ResultFields
  /\ (pc = "done" /\ ~Failed) => response.status = 200

C7_Witness ==
  /\ pc = "done"
  /\ exc.cls = "CalledProcessError"
  /\ StageTrace = <<"validate", "to_wav_mono16k">>
  /\ DOMAIN response.body = {"error"}

\* ---- the metrics
\* C8: for every wall_ms >= 0, every cpu_time_ms (negative, or above wall_ms)
\* and every core count (none counted as 1), cpu_percent_est is a defined
\* number in [0, 100]; it is 0 when wall_ms = 0, and otherwise
\* cpu_time_ms / wall_ms * 100 / cores clamped to [0, 100].
C8_CpuPercentEst ==
  (pc = "done" /\ response.status = 200) =>
    LET w == WallMs(t)
        c == CpuTimeMs(cpu)
        n == num_cpus
        est == CpuPercentEst(c, w, n)
    IN /\ n >= 1
       /\ w >= 0
       /\ est.den > 0
       /\ FracLeq(Frac(0, 1), est) /\ FracLeq(est, Frac(100, 1))
       /\ w = 0 => FracEq(est, Frac(0, 1))
       /\ (w > 0 /\ c <= 0) => FracEq(est, Frac(0, 1))
       /\ (w > 0 /\ c * 100 >= 100 * w * n) => FracEq(est, Frac(100, 1))
       /\ (w > 0 /\ c > 0 /\ c * 100 < 100 * w * n) =>
            est.num * (w * n) = (c * 100) * est.den
       /\ response.body.cpu_percent_est = Round(est, 10)
       /\ response.body.cpu_percent_est.num \in 0..1000

C8_Witness ==
  /\ pc = "done"
  /\ response.status = 200
  /\ WallMs(t) > 0
  /\ CpuTimeMs(cpu) < 0
  /\ num_cpus > 1
  /\ response.body.cpu_percent_est = Frac(0, 10)

\* Every text the engine gave is empty.
Silent == \A i \in 1..Len(engineLog) : engineLog[i].text = <<>>

\* C9: for a waveform on which the engine gives the empty text at every
\* boundary and at the end, recognize_wav_bytes returns the empty text, and
\* seconds = frame count of the header / sample rate, however many chunks
\* were read.
C9_SilentWaveform ==
  pc = "stt_after_recognize" =>
    /\ Silent => recog.text = <<>>
    /\ recog.seconds.den > 0
    /\ FracEq(recog.seconds, Frac(wav.nframes, SAMPLE_RATE))

C9_Witness ==
  /\ pc = "stt_after_recognize"
  /\ Silent
  /\ wav.nframes = FRAMES_PER_CHUNK + 1
  /\ \E i \in Entries("AcceptWaveform") : engineLog[i].boundary
  /\ recog.text = <<>>

\* The checkpoints, and the calls and returns of the two measured stages.
IsTimed(e) ==
  e \in {"wall0", "dec_t0", "dec_t1", "rec_t0", "rec_t1", "wall1", "to_wav_mono16k",
         "to_wav_mono16k.return", "recognize_wav_bytes", "recognize_wav_bytes.return"}

\* C10: in a successful response, the clock never going back, the checkpoints
\* are taken in the order wall0, dec_t0, dec_t1, rec_t0, rec_t1, wall1, with
\* the call of to_wav_mono16k alone between dec_t0 and dec_t1 and that of
\* recognize_wav_bytes alone between rec_t0 and rec_t1; so decode_ms >= 0,
\* recognize_ms >= 0 and decode_ms + recognize_ms <= latency_ms, truncated to
\* whole milliseconds as they are.
C10_IntervalsNest ==
  (pc = "done" /\ response.status = 200) =>
    /\ t.wall0 <= t.dec_t0 /\ t.dec_t0 <= t.dec_t1 /\ t.dec_t1 <= t.rec_t0
    /\ t.rec_t0 <= t.rec_t1 /\ t.rec_t1 <= t.wall1
    /\ SelectSeq(trace, IsTimed) =
         <<"wall0", "dec_t0", "to_wav_mono16k", "to_wav_mono16k.return", "dec_t1",
           "rec_t0", "recognize_wav_bytes", "recognize_wav_bytes.return", "rec_t1",
           "wall1">>
    /\ response.body.decode_ms >= 0
    /\ response.body.recognize_ms >= 0
    /\ response.body.decode_ms + response.body.recognize_ms <= response.body.latency_ms
    /\ response.body.decode_ms * TicksPerMs <= t.dec_t1 - t.dec_t0
    /\ response.body.recognize_ms * TicksPerMs <= t.rec_t1 - t.rec_t0

C10_Witness ==
  /\ pc = "done"
  /\ response.status = 200
  /\ t.wall0 = t.dec_t0 /\ t.dec_t1 = t.rec_t0 /\ t.rec_t1 = t.wall1
  /\ response.body.decode_ms > 0
  /\ response.body.recognize_ms > 0
  /\ response.body.decode_ms + response.body.recognize_ms < response.body.latency_ms

====
